---- MODULE Spec2Model ----
(***************************************************************************)
(* Mean-reversion backtest engine: simple_backtest (simple_strategy.py)    *)
(* and MeanReversionStrategy.backtest (strategy.py).                       *)
(*                                                                         *)
(* Conventions.  Python sequences are 0-based, the sequences here are      *)
(* 1-based: bar b of the model is index b-1 of the source.  Prices are     *)
(* integers; every quotient the code computes in floating point (returns,  *)
(* RSI) is kept as an exact fraction [num, den] with den > 0, and NaN is   *)
(* the fraction with den = 0.                                              *)
(***************************************************************************)
EXTENDS Integers, Sequences, FiniteSets

VARIABLES impl, closes, dates, rsi_threshold, exit_percentage, red_days,
          rsi_period, pc, i, position, trades, opened, signals, result,
          metrics, calls

vars == <<impl, closes, dates, rsi_threshold, exit_percentage, red_days,
          rsi_period, pc, i, position, trades, opened, signals, result,
          metrics, calls>>

inputs == <<impl, closes, dates, rsi_threshold, exit_percentage, red_days,
            rsi_period>>

-----------------------------------------------------------------------------
(* Bounds of the explored inputs *)

\* most flat segments a close series of the simple_backtest runs is made of
MaxSegs == 4

\* most bars of a close series of the simple_backtest runs
MaxLen == 31

\* most bars of a close series of the MeanReversionStrategy runs
MaxBars == 6

\* close prices
Prices == {95, 100, 105}

\* rsi_threshold values
RsiThresholds == {30, 50}

\* exit_percentage values, as fractions: 0.05 and 0.10
ExitPercentages == {[num |-> 1, den |-> 20], [num |-> 1, den |-> 10]}

\* red_days values
RedDays == {1, 2}

\* rsi_period values of MeanReversionStrategy
RsiPeriods == {1, 3}

-----------------------------------------------------------------------------
(* Program constants *)

\* calculate_simple_rsi(prices, period=14), called without a period
DefaultPeriod == 14

\* MinBars lowered to the bars the first RSI window needs: period + 1
MinBarsWindowOnly == DefaultPeriod + 1

\* simple_backtest: if len(data) < 20: return []
MinBars == 20

\* position = None
None == [buy_date |-> -1, buy_price |-> 0, ticker |-> "none"]

\* np.nan
NaN == [num |-> 0, den |-> 0]

\* 'ticker': 'STOCK' of simple_backtest
StockTicker == "STOCK"

\* the ticker passed to MeanReversionStrategy.backtest
Ticker == "AAPL"

-----------------------------------------------------------------------------
(* Arithmetic helpers *)

Abs(x) == IF x < 0 THEN -x ELSE x

Max(a, b) == IF a >= b THEN a ELSE b

\* IsNaN that never reports a missing value
IsNaNNever(r) == FALSE

\* np.isnan, pd.isna
IsNaN(r) == r.den = 0

\* r < t for a fraction r and an integer t
RatLtInt(r, t) == r.num < t * r.den

\* abs(r) >= e for fractions r and e
RatAbsGe(r, e) == Abs(r.num) * e.den >= e.num * r.den

-----------------------------------------------------------------------------
(* The price series: data.index and data['Close'] *)

\* the calendar day of bar b: five trading days a week
TradingDate(b) == 7 * ((b - 1) \div 5) + ((b - 1) % 5)

RECURSIVE Expand(_)
\* the close series made of the flat segments <<price, length>>
Expand(segs) ==
    IF segs = <<>> THEN <<>>
    ELSE [k \in 1..segs[1][2] |-> segs[1][1]] \o Expand(Tail(segs))

\* lengths of a flat segment
RunLengths == {1, DefaultPeriod}

RECURSIVE TotalLength(_)
TotalLength(segs) ==
    IF segs = <<>> THEN 0 ELSE segs[1][2] + TotalLength(Tail(segs))

SegmentSeries ==
    {Expand(s) : s \in {t \in UNION {[1..k -> Prices \X RunLengths] : k \in 1..MaxSegs} :
                            TotalLength(t) <= MaxLen}}

ShortSeries == UNION {[1..n -> Prices] : n \in 1..MaxBars}

-----------------------------------------------------------------------------
(* calculate_simple_rsi *)

RECURSIVE SumGains(_, _, _)
\* sum of gains[lo..hi-1], gains = np.where(deltas > 0, deltas, 0)
SumGains(c, lo, hi) ==
    IF lo >= hi THEN 0
    ELSE Max(c[lo + 1] - c[lo], 0) + SumGains(c, lo + 1, hi)

RECURSIVE SumLosses(_, _, _)
\* sum of losses[lo..hi-1], losses = np.where(deltas < 0, -deltas, 0)
SumLosses(c, lo, hi) ==
    IF lo >= hi THEN 0
    ELSE Max(c[lo] - c[lo + 1], 0) + SumLosses(c, lo + 1, hi)

\* RsiOf with the two means exchanged: rs = avg_loss / avg_gain
RsiOfLossOverGain(g, l) == [num |-> 100 * l, den |-> g + l]

\* rsi = 100 - 100 / (1 + rs), rs = avg_gain / avg_loss, as the fraction
\* 100 * avg_gain / (avg_gain + avg_loss); the two means share the divisor
\* period, so the sums stand for them
RsiOf(g, l) == [num |-> 100 * g, den |-> g + l]

\* SimpleRsiAt with the window moved one bar ahead where a later bar exists:
\* gains[i-period+2:i+2]
SimpleRsiAtNextBar(c, b, period) ==
    IF b < period + 1 THEN NaN
    ELSE LET e        == IF b < Len(c) THEN b + 1 ELSE b
             avg_gain == SumGains(c, e - period, e)
             avg_loss == SumLosses(c, e - period, e)
         IN  IF avg_loss = 0 THEN NaN ELSE RsiOf(avg_gain, avg_loss)

\* element b of the list calculate_simple_rsi returns: NaN for the padded
\* first value, while fewer than period deltas precede, and when the mean
\* loss of the window is 0
SimpleRsiAt(c, b, period) ==
    IF b < period + 1 THEN NaN
    ELSE LET avg_gain == SumGains(c, b - period, b)
             avg_loss == SumLosses(c, b - period, b)
         IN  IF avg_loss = 0 THEN NaN ELSE RsiOf(avg_gain, avg_loss)

calculate_simple_rsi(c, period) ==
    [b \in 1..Len(c) |-> SimpleRsiAt(c, b, period)]

-----------------------------------------------------------------------------
(* utils.calculate_rsi: exponentially weighted means, alpha = 2/(period+1) *)

RECURSIVE Pow(_, _)
Pow(x, n) == IF n = 0 THEN 1 ELSE x * Pow(x, n - 1)

RECURSIVE EwmGain(_, _, _)
\* (period+1)^(b-1) * avg_gains[b]: avg[1] = gains[1] = 0 (the NaN delta is
\* replaced by 0), avg[b] = (1-alpha) * avg[b-1] + alpha * gains[b]
EwmGain(c, b, period) ==
    IF b <= 1 THEN 0
    ELSE (period - 1) * EwmGain(c, b - 1, period)
         + 2 * Pow(period + 1, b - 2) * Max(c[b] - c[b - 1], 0)

RECURSIVE EwmLoss(_, _, _)
EwmLoss(c, b, period) ==
    IF b <= 1 THEN 0
    ELSE (period - 1) * EwmLoss(c, b - 1, period)
         + 2 * Pow(period + 1, b - 2) * Max(c[b - 1] - c[b], 0)

\* rs = avg_gains / avg_losses is 0/0 = NaN when both means are 0 and inf
\* when only the mean loss is 0, which makes rsi = 100 - 100/inf = 100
calculate_rsi(c, period) ==
    [b \in 1..Len(c) |-> RsiOf(EwmGain(c, b, period), EwmLoss(c, b, period))]

-----------------------------------------------------------------------------
(* consecutive red days *)

RECURSIVE RedRunAtFlatCounts(_, _)
\* RedRunAt with a flat close counted as a red day: closes[i] <= closes[i-1]
RedRunAtFlatCounts(c, b) ==
    IF b <= 1 THEN 0
    ELSE IF c[b] <= c[b - 1] THEN RedRunAtFlatCounts(c, b - 1) + 1
    ELSE 0

RECURSIVE RedRunAt(_, _)
\* consecutive_red[b]: 0 on the first day, one more than the day before on
\* a close below the previous close, 0 otherwise
RedRunAt(c, b) ==
    IF b <= 1 THEN 0
    ELSE IF c[b] < c[b - 1] THEN RedRunAt(c, b - 1) + 1
    ELSE 0

identify_red_days(c) == [b \in 1..Len(c) |-> RedRunAt(c, b)]

-----------------------------------------------------------------------------
(* the loop body of the two backtests *)

\* IsFlat with the test for an open position lost: the entry branch is taken
\* whatever the position
IsFlatAlways(pos) == TRUE

\* position is None
IsFlat(pos) == pos = None

\* BuySignal with the run compared strictly: current_red_days > red_days
BuySignalStrictRun(red, rsi, rd, thr) ==
    red > rd /\ ~IsNaN(rsi) /\ RatLtInt(rsi, thr)

\* BuySignal with the RSI compared non-strictly: current_rsi <= rsi_threshold
BuySignalRsiAtThreshold(red, rsi, rd, thr) ==
    red >= rd /\ ~IsNaN(rsi) /\ rsi.num <= thr * rsi.den

\* current_red_days >= red_days and current_rsi < rsi_threshold, on a bar
\* whose RSI is not NaN
BuySignal(red, rsi, rd, thr) == red >= rd /\ ~IsNaN(rsi) /\ RatLtInt(rsi, thr)

\* MeanReversionStrategy.generate_signals: a copy of the data with the RSI,
\* Consecutive_Red and Buy_Signal columns, one row per bar
generate_signals(c, period, rd, thr) ==
    [b \in 1..Len(c) |->
        [Close           |-> c[b],
         RSI             |-> calculate_rsi(c, period)[b],
         Consecutive_Red |-> identify_red_days(c)[b],
         Buy_Signal      |-> BuySignal(identify_red_days(c)[b],
                                       calculate_rsi(c, period)[b], rd, thr)]]

\* OpenPosition with the entry dated one bar early: dates[i-1]
OpenPositionPreviousBar(date, price, tk) ==
    [buy_date |-> dates[i - 1], buy_price |-> price, ticker |-> tk]

\* position = {'buy_date': ..., 'buy_price': ..., 'ticker': ...}
OpenPosition(date, price, tk) ==
    [buy_date |-> date, buy_price |-> price, ticker |-> tk]

\* return_pct = (current_price - buy_price) / buy_price
ReturnPct(price, buy_price) == [num |-> price - buy_price, den |-> buy_price]

\* abs(return_pct) >= exit_percentage
ShouldSell(ret, exit) == RatAbsGe(ret, exit)

\* i == len(dates) - 1
IsLastDay(b, n) == b = n

\* ExitReason that labels every sale target_hit
ExitReasonAlwaysTarget(should_sell) == "target_hit"

\* ExitReason with the last-bar test taken first
ExitReasonLastDayFirst(should_sell) ==
    IF IsLastDay(i, Len(dates)) THEN "end_of_data"
    ELSE IF should_sell THEN "target_hit" ELSE "end_of_data"

\* 'target_hit' if abs(return_pct) >= exit_percentage else 'end_of_data'
ExitReason(should_sell) == IF should_sell THEN "target_hit" ELSE "end_of_data"

\* MakeTrade with the holding time counted in bars, not in calendar days
MakeTradeBarsHeld(pos, date, price, reason) ==
    [ticker      |-> pos.ticker,
     buy_date    |-> pos.buy_date,
     buy_price   |-> pos.buy_price,
     sell_date   |-> date,
     sell_price  |-> price,
     return_pct  |-> [num |-> 100 * (price - pos.buy_price),
                      den |-> pos.buy_price],
     days_held   |-> Cardinality({b \in 1..Len(dates) :
                         dates[b] > pos.buy_date /\ dates[b] <= date}),
     exit_reason |-> reason]

\* the trade dictionary appended on a sale
MakeTrade(pos, date, price, reason) ==
    [ticker      |-> pos.ticker,
     buy_date    |-> pos.buy_date,
     buy_price   |-> pos.buy_price,
     sell_date   |-> date,
     sell_price  |-> price,
     return_pct  |-> [num |-> 100 * (price - pos.buy_price),
                      den |-> pos.buy_price],
     days_held   |-> date - pos.buy_date,
     exit_reason |-> reason]

\* AppendTrade that reuses the slot of the last closed trade
AppendTradeOverLast(ts, t) ==
    IF ts = <<>> THEN <<t>> ELSE [ts EXCEPT ![Len(ts)] = t]

\* trades.append(trade)
AppendTrade(ts, t) == Append(ts, t)

-----------------------------------------------------------------------------
(* The series both backtests derive from the closes before their loop; a  *)
(* function of the input, which no step changes                            *)

\* rsi_values = calculate_simple_rsi(closes) of simple_backtest, and
\* rsi = calculate_rsi(data['Close'], period=self.rsi_period) of
\* generate_signals
rsi_values ==
    IF impl = "simple" THEN calculate_simple_rsi(closes, DefaultPeriod)
    ELSE calculate_rsi(closes, rsi_period)

\* consecutive_red of simple_backtest and of generate_signals
consecutive_red == identify_red_days(closes)

-----------------------------------------------------------------------------
(* Initial states: the arguments of one backtest call *)

\* a six-bar decline with a rebound on the last bar, run with
\* red_days = 3, rsi_threshold = 50 and exit_percentage = 0.05
ScenarioCloses == <<100, 98, 96, 94, 92, 95>>

ScenarioPeriods == 1..4

Init ==
    /\ \/ /\ \/ impl = "simple" /\ closes \in SegmentSeries
                /\ rsi_period = DefaultPeriod
             \/ impl = "mr" /\ closes \in ShortSeries /\ rsi_period \in RsiPeriods
          /\ rsi_threshold \in RsiThresholds
          /\ exit_percentage \in ExitPercentages
          /\ red_days \in RedDays
       \/ /\ closes = ScenarioCloses
          /\ \/ impl = "simple" /\ rsi_period = DefaultPeriod
             \/ impl = "mr" /\ rsi_period \in ScenarioPeriods
          /\ rsi_threshold = 50
          /\ exit_percentage = [num |-> 1, den |-> 20]
          /\ red_days = 3
    /\ dates = [b \in 1..Len(closes) |-> TradingDate(b)]
    /\ pc = "start"
    /\ i = 0
    /\ position = None
    /\ trades = <<>>
    /\ opened = 0
    /\ signals = <<>>
    /\ result = <<>>
    /\ metrics = <<>>
    /\ calls = <<>>

-----------------------------------------------------------------------------
(* simple_backtest *)

\* if len(data) < 20: return []
SimpleTooShort ==
    /\ impl = "simple" /\ pc = "start"
    /\ Len(closes) < MinBars
    /\ pc' = "done"
    /\ UNCHANGED <<inputs, calls, metrics, result, signals, i, position, trades, opened>>

\* lines 42-59: trades = [], position = None, and the loop starts
SimpleStart ==
    /\ impl = "simple" /\ pc = "start"
    /\ Len(closes) >= MinBars
    /\ trades' = <<>>
    /\ position' = None
    /\ i' = 1
    /\ pc' = "loop"
    /\ UNCHANGED <<inputs, calls, metrics, result, signals, opened>>

\* one iteration of: for i in range(len(dates))
SimpleStep ==
    /\ impl = "simple" /\ pc = "loop"
    /\ i <= Len(dates)
    /\ LET current_date  == dates[i]
           current_price == closes[i]
           current_rsi   == rsi_values[i]
           current_red   == consecutive_red[i]
           return_pct    == ReturnPct(current_price, position.buy_price)
           should_sell   == ShouldSell(return_pct, exit_percentage)
       IN  IF IsNaN(current_rsi)
           THEN UNCHANGED <<position, trades, opened>>
           ELSE IF IsFlat(position)
           THEN IF BuySignal(current_red, current_rsi, red_days, rsi_threshold)
                THEN /\ position' = OpenPosition(current_date, current_price, StockTicker)
                     /\ opened' = opened + 1
                     /\ UNCHANGED trades
                ELSE UNCHANGED <<position, trades, opened>>
           ELSE IF should_sell \/ IsLastDay(i, Len(dates))
                THEN /\ trades' = AppendTrade(trades,
                            MakeTrade(position, current_date, current_price,
                                      ExitReason(should_sell)))
                     /\ position' = None
                     /\ UNCHANGED opened
                ELSE UNCHANGED <<position, trades, opened>>
    /\ i' = i + 1
    /\ UNCHANGED <<inputs, calls, metrics, result, signals, pc>>

\* return trades
SimpleReturn ==
    /\ impl = "simple" /\ pc = "loop"
    /\ i > Len(dates)
    /\ pc' = "done"
    /\ UNCHANGED <<inputs, calls, metrics, result, signals, i, position, trades, opened>>

-----------------------------------------------------------------------------
(* MeanReversionStrategy.backtest *)

\* signals = self.generate_signals(data); trades = []; position = None
GenerateSignals ==
    /\ impl = "mr" /\ pc = "start"
    /\ signals' = generate_signals(closes, rsi_period, red_days, rsi_threshold)
    /\ trades' = <<>>
    /\ position' = None
    /\ i' = 1
    /\ pc' = "loop"
    /\ UNCHANGED <<inputs, calls, metrics, result, opened>>

\* Buy_Signal read from the red-day count alone
Buy_SignalRedOnly(b) == signals[b].Consecutive_Red >= red_days

\* row['Buy_Signal'] of generate_signals
Buy_Signal(b) == signals[b].Buy_Signal

\* one iteration of: for i, (date, row) in enumerate(signals.iterrows())
BacktestStep ==
    /\ impl = "mr" /\ pc = "loop"
    /\ i <= Len(dates)
    /\ LET date          == dates[i]
           row           == signals[i]
           current_price == row.Close
           return_pct    == ReturnPct(current_price, position.buy_price)
           should_sell   == ShouldSell(return_pct, exit_percentage)
           is_last_day   == IsLastDay(i, Len(signals))
       IN  IF IsNaN(row.RSI)
           THEN UNCHANGED <<position, trades, opened>>
           ELSE IF IsFlat(position) /\ Buy_Signal(i)
           THEN /\ position' = OpenPosition(date, current_price, Ticker)
                /\ opened' = opened + 1
                /\ UNCHANGED trades
           ELSE IF ~IsFlat(position) /\ (should_sell \/ is_last_day)
           THEN /\ trades' = AppendTrade(trades,
                       MakeTrade(position, date, current_price,
                                 ExitReason(should_sell)))
                /\ position' = None
                /\ UNCHANGED opened
           ELSE UNCHANGED <<position, trades, opened>>
    /\ i' = i + 1
    /\ UNCHANGED <<inputs, calls, metrics, result, signals, pc>>

\* lines 151-171: close a position still open after the loop, then return
BacktestReturn ==
    /\ impl = "mr" /\ pc = "loop"
    /\ i > Len(dates)
    /\ IF ~IsFlat(position)
       THEN trades' = AppendTrade(trades,
                MakeTrade(position, dates[Len(dates)], signals[Len(signals)].Close,
                          "end_of_data"))
       ELSE UNCHANGED trades
    /\ pc' = "done"
    /\ UNCHANGED <<inputs, calls, metrics, result, signals, i, position, opened>>

-----------------------------------------------------------------------------

Next ==
    \/ SimpleTooShort
    \/ SimpleStart
    \/ SimpleStep
    \/ SimpleReturn
    \/ GenerateSignals
    \/ BacktestStep
    \/ BacktestReturn

Spec == Init /\ [][Next]_vars

TypeOK ==
    /\ impl \in {"simple", "mr"}
    /\ pc \in {"start", "loop", "done"}
    /\ i \in 0..(Len(closes) + 1)
    /\ opened \in Nat
    /\ Len(dates) = Len(closes)

-----------------------------------------------------------------------------
(* The backtests called with an exit_percentage that is not positive *)

InvalidExitPercentages == {[num |-> 0, den |-> 1], [num |-> -1, den |-> 20]}

InitInvalid ==
    /\ \/ impl = "simple" /\ closes \in SegmentSeries /\ rsi_period = DefaultPeriod
       \/ impl = "mr" /\ closes \in ShortSeries /\ rsi_period \in RsiPeriods
    /\ dates = [b \in 1..Len(closes) |-> TradingDate(b)]
    /\ rsi_threshold = 30
    /\ exit_percentage \in InvalidExitPercentages
    /\ red_days = 1
    /\ pc = "start"
    /\ i = 0
    /\ position = None
    /\ trades = <<>>
    /\ opened = 0
    /\ signals = <<>>
    /\ result = <<>>
    /\ metrics = <<>>
    /\ calls = <<>>

\* neither simple_backtest nor MeanReversionStrategy tests its arguments: the
\* steps are those of any other call
SpecInvalid == InitInvalid /\ [][Next]_vars

-----------------------------------------------------------------------------
(* The indicator functions called on their own: one call per behaviour,    *)
(* its return value kept in result (signals for generate_signals)          *)

IndicatorPrices == {94, 96, 98, 100}

IndicatorSeries == UNION {[1..n -> IndicatorPrices] : n \in 1..MaxBars}

IndicatorPeriods == {1, 2, 3}

\* the arguments of the call; the strategy parameters are the defaults of
\* MeanReversionStrategy.__init__
InitIndicators ==
    /\ impl = "indicators"
    /\ closes \in IndicatorSeries
    /\ rsi_period \in IndicatorPeriods
    /\ dates = [b \in 1..Len(closes) |-> TradingDate(b)]
    /\ rsi_threshold = 30
    /\ exit_percentage = [num |-> 1, den |-> 20]
    /\ red_days = 2
    /\ pc = "start"
    /\ i = 0
    /\ position = None
    /\ trades = <<>>
    /\ opened = 0
    /\ signals = <<>>
    /\ result = <<>>
    /\ metrics = <<>>
    /\ calls = <<>>

\* calculate_simple_rsi(closes, period)
CallSimpleRsi ==
    /\ pc = "start"
    /\ result' = calculate_simple_rsi(closes, rsi_period)
    /\ pc' = "simple_rsi"
    /\ UNCHANGED <<inputs, calls, metrics, signals, i, position, trades, opened>>

\* calculate_rsi(data['Close'], period)
CallRsi ==
    /\ pc = "start"
    /\ result' = calculate_rsi(closes, rsi_period)
    /\ pc' = "rsi"
    /\ UNCHANGED <<inputs, calls, metrics, signals, i, position, trades, opened>>

\* identify_red_days(data), and the consecutive_red loop of simple_backtest
CallRedDays ==
    /\ pc = "start"
    /\ result' = identify_red_days(closes)
    /\ pc' = "red_days"
    /\ UNCHANGED <<inputs, calls, metrics, signals, i, position, trades, opened>>

\* generate_signals(data)
CallGenerateSignals ==
    /\ pc = "start"
    /\ signals' = generate_signals(closes, rsi_period, red_days, rsi_threshold)
    /\ pc' = "signals"
    /\ UNCHANGED <<inputs, calls, metrics, result, i, position, trades, opened>>

NextIndicators ==
    \/ CallSimpleRsi
    \/ CallRsi
    \/ CallRedDays
    \/ CallGenerateSignals

SpecIndicators == InitIndicators /\ [][NextIndicators]_vars

-----------------------------------------------------------------------------
(* notifications.check_live_signals, for one ticker of its list *)

\* if data is None or data.shape[0] < 15: continue
MinLiveBars == 15

RECURSIVE BackwardRedFlatCounts(_, _, _)
\* BackwardRed with a flat close counted: closes[i] <= closes[i-1]
BackwardRedFlatCounts(c, b, n) ==
    IF b < 2 THEN n
    ELSE IF c[b] <= c[b - 1] THEN BackwardRedFlatCounts(c, b - 1, n + 1)
    ELSE n

RECURSIVE BackwardRed(_, _, _)
\* for i in range(len(closes)-1, 0, -1): consecutive_red += 1 while
\* closes[i] < closes[i-1], break at the first close that is not lower;
\* b is the bar the loop is at and n the count so far
BackwardRed(c, b, n) ==
    IF b < 2 THEN n
    ELSE IF c[b] < c[b - 1] THEN BackwardRed(c, b - 1, n + 1)
    ELSE n

\* the signal dictionary appended to signals_found
LiveSignal(tk, price, rsi, red) ==
    [ticker |-> tk, signal_type |-> "BUY", price |-> price, rsi |-> rsi,
     red_days |-> red]

\* signals_found for the one ticker: empty for less than 15 bars, for a NaN
\* latest RSI, and when the buy test fails
check_live_signals(c, rd, thr) ==
    IF Len(c) < MinLiveBars THEN <<>>
    ELSE LET latest_price    == c[Len(c)]
             latest_rsi      == calculate_simple_rsi(c, DefaultPeriod)[Len(c)]
             consecutive_reds == BackwardRed(c, Len(c), 0)
         IN  IF IsNaN(latest_rsi) THEN <<>>
             ELSE IF consecutive_reds >= rd /\ RatLtInt(latest_rsi, thr)
                  THEN <<LiveSignal(Ticker, latest_price, latest_rsi,
                                    consecutive_reds)>>
                  ELSE <<>>

InitLive ==
    /\ impl = "live"
    /\ closes \in SegmentSeries
    /\ rsi_period = DefaultPeriod
    /\ dates = [b \in 1..Len(closes) |-> TradingDate(b)]
    /\ rsi_threshold \in RsiThresholds
    /\ exit_percentage = [num |-> 1, den |-> 20]
    /\ red_days \in RedDays
    /\ pc = "start"
    /\ i = 0
    /\ position = None
    /\ trades = <<>>
    /\ opened = 0
    /\ signals = <<>>
    /\ result = <<>>
    /\ metrics = <<>>
    /\ calls = <<>>

\* check_live_signals([ticker], strategy_params, notification_settings)
CheckLiveSignals ==
    /\ pc = "start"
    /\ result' = check_live_signals(closes, red_days, rsi_threshold)
    /\ pc' = "checked"
    /\ UNCHANGED <<inputs, calls, metrics, signals, i, position, trades, opened>>

NextLive == CheckLiveSignals

SpecLive == InitLive /\ [][NextLive]_vars

-----------------------------------------------------------------------------
(* Vocabulary of the properties, stated on the inputs and the trade list   *)
(* and not through the operators of the loop body                          *)

\* the bar whose timestamp is d (timestamps are strictly increasing)
IndexOf(d) == CHOOSE b \in 1..Len(dates) : dates[b] = d

LastBar == Len(dates)

\* bars the loop has been through
Processed == IF pc = "start" THEN 0 ELSE i - 1

\* the entry condition at bar b: RSI defined and below the threshold, and a
\* red-day run of at least red_days
EntrySignal(b) ==
    /\ rsi_values[b].den # 0
    /\ rsi_values[b].num < rsi_threshold * rsi_values[b].den
    /\ consecutive_red[b] >= red_days

\* abs((price - entry) / entry) >= exit_percentage
Reached(entry, price) ==
    Abs(price - entry) * exit_percentage.den >= exit_percentage.num * entry

InPosition == position # None

\* C1: at most one position is open at any step: a step never replaces an
\* open position by another one (it keeps it or closes it), and the
\* positions opened so far are the recorded trades plus at most one
C1_SinglePosition ==
    [][/\ InPosition => (position' = position \/ position' = None)
       /\ opened' - Len(trades') \in {0, 1}]_vars

\* C1 witness: a position is open and the loop has passed a later bar whose
\* entry signal was true
C1_Witness ==
    /\ InPosition
    /\ \E b \in (IndexOf(position.buy_date) + 1)..Processed : EntrySignal(b)

\* C2: when the backtest returns, the number of trades equals the number of
\* positions opened
C2_EveryOpenedPositionYieldsOneTrade ==
    pc = "done" => Len(trades) = opened

\* C3: a position is never held past the first bar after its entry at which
\* the absolute return reaches exit_percentage
C3_NeverHeldPastThreshold ==
    InPosition =>
        \A b \in (IndexOf(position.buy_date) + 1)..Processed :
            ~Reached(position.buy_price, closes[b])

\* C4: a position open when the last bar is reached, with the threshold not
\* met there, is closed at the last bar's close as end_of_data; and every
\* end_of_data trade exits at the last bar
C4_ForcedCloseAtLastBar ==
    /\ (pc = "done" /\ InPosition /\ IndexOf(position.buy_date) < LastBar)
           => \E k \in 1..Len(trades) :
                  /\ trades[k].buy_date = position.buy_date
                  /\ trades[k].sell_date = dates[LastBar]
    /\ \A k \in 1..Len(trades) :
           /\ trades[k].exit_reason = "end_of_data"
                  => /\ trades[k].sell_date = dates[LastBar]
                     /\ trades[k].sell_price = closes[LastBar]
           /\ (/\ trades[k].sell_date = dates[LastBar]
               /\ ~Reached(trades[k].buy_price, closes[LastBar]))
                  => trades[k].exit_reason = "end_of_data"

\* C5: every trade has its entry timestamp strictly before its exit timestamp
C5_EntryBeforeExit ==
    \A k \in 1..Len(trades) : trades[k].buy_date < trades[k].sell_date

\* C6: the trade list is chronological and non-overlapping: each trade is
\* entered strictly after the exit of the trade before it
C6_ChronologicalNonOverlapping ==
    \A k \in 1..(Len(trades) - 1) :
        trades[k].sell_date < trades[k + 1].buy_date

\* C6 witness: a returned list of two trades or more
C6_Witness == pc = "done" /\ Len(trades) >= 2

\* C7: every trade has abs(return_pct) >= exit_percentage * 100 or is an
\* end_of_data trade
C7_TargetHitMeansThreshold ==
    \A k \in 1..Len(trades) :
        \/ Abs(trades[k].return_pct.num) * exit_percentage.den
               >= 100 * exit_percentage.num * trades[k].return_pct.den
        \/ trades[k].exit_reason = "end_of_data"

\* C7 witness: a forced close below the threshold and a target_hit trade in
\* one list
C7_Witness ==
    /\ \E k \in 1..Len(trades) : trades[k].exit_reason = "target_hit"
    /\ \E k \in 1..Len(trades) :
           /\ trades[k].exit_reason = "end_of_data"
           /\ ~Reached(trades[k].buy_price, trades[k].sell_price)

\* the bar after which the simulator was last Flat before entry number k
\* (0 for the first entry, the exit bar of trade k-1 otherwise)
PrevExit(k) == IF k = 1 THEN 0 ELSE IndexOf(trades[k - 1].sell_date)

\* an entry at timestamp d and price p, as entry number k, was taken at a
\* bar with a true signal, at that bar's close, and no bar between the
\* previous exit and it had a true signal
EntryOk(d, p, k) ==
    /\ EntrySignal(IndexOf(d))
    /\ p = closes[IndexOf(d)]
    /\ \A b \in (PrevExit(k) + 1)..(IndexOf(d) - 1) : ~EntrySignal(b)

\* C8: Flat with a true signal at bar i opens at (timestamp[i], close[i]),
\* Flat with a false signal stays Flat; hence in the returned list every
\* entry is at a bar with a true signal, at that bar's close, and it is the
\* first such bar after the previous exit bar
C8_EntryAtFirstSignal ==
    /\ [][(pc = "loop" /\ i <= LastBar /\ ~InPosition)
              => IF EntrySignal(i)
                 THEN /\ position'.buy_date = dates[i]
                      /\ position'.buy_price = closes[i]
                 ELSE position' = None]_vars
    /\ [](pc = "done"
              => \A k \in 1..Len(trades) :
                     EntryOk(trades[k].buy_date, trades[k].buy_price, k))

\* C8 witness: a second entry, taken after bars without a signal
C8_Witness ==
    /\ InPosition /\ Len(trades) >= 1
    /\ IndexOf(position.buy_date) > PrevExit(Len(trades) + 1) + 1

\* C9: a bar on which an exit occurs is never also an entry bar
C9_ExitBarNeverEntryBar ==
    \A k \in 1..Len(trades) :
        /\ \A m \in 1..Len(trades) : trades[m].buy_date # trades[k].sell_date
        /\ InPosition => position.buy_date # trades[k].sell_date

C11_SignalIffConditions ==
    /\ [](\A b \in 1..Len(signals) :
              signals[b].Buy_Signal
                  <=> /\ signals[b].RSI.den # 0
                      /\ signals[b].RSI.num < rsi_threshold * signals[b].RSI.den
                      /\ signals[b].Consecutive_Red >= red_days)
    /\ [][(impl = "simple" /\ pc = "loop" /\ i <= LastBar /\ position = None)
              => (position' # None
                      <=> /\ rsi_values[i].den # 0
                          /\ rsi_values[i].num < rsi_threshold * rsi_values[i].den
                          /\ consecutive_red[i] >= red_days)]_vars

\* C11 witness: a bar whose RSI equals rsi_threshold exactly, after a red run
\* of red_days or more, and no signal there
C11_Witness ==
    \E b \in 1..Len(signals) :
        /\ signals[b].RSI.den # 0
        /\ signals[b].RSI.num = rsi_threshold * signals[b].RSI.den
        /\ signals[b].Consecutive_Red >= red_days
        /\ ~signals[b].Buy_Signal

-----------------------------------------------------------------------------
(* Properties of the indicator functions, under SpecIndicators *)

\* the bars 1..n of the close series
Prefix(n) == SubSeq(closes, 1, n)

\* C12: no look-ahead: the RSI, the red-day run and the entry signal at a
\* bar are those computed from the series cut after that bar; hence two
\* series that agree up to a bar have the same values up to it, and further
\* bars never change a value already computed
C12_NoLookAhead ==
    /\ pc = "simple_rsi"
           => \A b \in 1..Len(closes) :
                  result[b] = calculate_simple_rsi(Prefix(b), rsi_period)[b]
    /\ pc = "rsi"
           => \A b \in 1..Len(closes) :
                  result[b] = calculate_rsi(Prefix(b), rsi_period)[b]
    /\ pc = "red_days"
           => \A b \in 1..Len(closes) :
                  result[b] = identify_red_days(Prefix(b))[b]
    /\ pc = "signals"
           => \A b \in 1..Len(closes) :
                  signals[b] = generate_signals(Prefix(b), rsi_period, red_days,
                                                rsi_threshold)[b]

\* C12 witness: an RSI value in the middle of a series whose later bars
\* differ from it
C12_Witness ==
    /\ pc = "simple_rsi"
    /\ \E b \in 1..(Len(closes) - 1) :
           /\ ~IsNaN(result[b])
           /\ closes[b + 1] # closes[b]

\* no close is below the close before it
NonDecreasing == \A b \in 2..Len(closes) : closes[b] >= closes[b - 1]

\* C13: the red-day run has the length of the close series, is 0 on the
\* first bar, is one more than the bar before on a close strictly below the
\* previous close and 0 on any other close (a flat close resets it); on a
\* non-decreasing series it is 0 everywhere. Also for the Consecutive_Red
\* column of generate_signals
C13_RedRunRecurrence ==
    /\ pc = "red_days"
           => /\ Len(result) = Len(closes)
              /\ result[1] = 0
              /\ \A b \in 2..Len(closes) :
                     result[b] = IF closes[b] < closes[b - 1]
                                 THEN result[b - 1] + 1
                                 ELSE 0
              /\ NonDecreasing => \A b \in 1..Len(closes) : result[b] = 0
    /\ pc = "signals"
           => /\ Len(signals) = Len(closes)
              /\ signals[1].Consecutive_Red = 0
              /\ \A b \in 2..Len(closes) :
                     signals[b].Consecutive_Red
                         = IF closes[b] < closes[b - 1]
                           THEN signals[b - 1].Consecutive_Red + 1
                           ELSE 0

\* C13 witness: a run of two red days reset by a flat close
C13_Witness ==
    /\ pc = "red_days"
    /\ \E b \in 2..Len(closes) :
           /\ result[b - 1] >= 2
           /\ closes[b] = closes[b - 1]
           /\ result[b] = 0

\* C14: the RSI series has the length of its input, and its value at 0-based
\* index i is undefined exactly when i < period: undefined before, defined
\* at every index from period on (so a series of period bars has no defined
\* RSI before its final index)
C14_RsiDefinedFromPeriod ==
    pc \in {"simple_rsi", "rsi"}
        => /\ Len(result) = Len(closes)
           /\ \A b \in 1..Len(closes) : IsNaN(result[b]) <=> b - 1 < rsi_period

\* C15: at a bar whose window is full and whose mean loss is exactly 0 (no
\* loss among the trailing period deltas for calculate_simple_rsi, no loss
\* so far for the exponentially weighted mean of calculate_rsi) the RSI is
\* defined and equal to 100
C15_ZeroLossIs100 ==
    /\ pc = "simple_rsi"
           => \A b \in (rsi_period + 1)..Len(closes) :
                  SumLosses(closes, b - rsi_period, b) = 0
                      => /\ result[b].den # 0
                         /\ result[b].num = 100 * result[b].den
    /\ pc = "rsi"
           => \A b \in (rsi_period + 1)..Len(closes) :
                  SumLosses(closes, 1, b) = 0
                      => /\ result[b].den # 0
                         /\ result[b].num = 100 * result[b].den

StrictlyDecreasing == \A b \in 2..Len(closes) : closes[b] < closes[b - 1]

StrictlyIncreasing == \A b \in 2..Len(closes) : closes[b] > closes[b - 1]

\* C16: on a strictly decreasing series of period + 2 closes or more the RSI
\* is 0 wherever it is defined, and on a strictly increasing series it is
\* 100 wherever it is defined
C16_MonotoneSeriesRsi ==
    pc \in {"simple_rsi", "rsi"}
        => /\ (StrictlyDecreasing /\ Len(closes) >= rsi_period + 2)
                  => \A b \in 1..Len(closes) :
                         ~IsNaN(result[b]) => result[b].num = 0
           /\ StrictlyIncreasing
                  => \A b \in 1..Len(closes) :
                         ~IsNaN(result[b]) => result[b].num = 100 * result[b].den

\* C16 witness: a strictly decreasing series of period + 2 closes or more
\* with the RSI defined on two bars at least
C16_Witness ==
    /\ pc \in {"simple_rsi", "rsi"}
    /\ StrictlyDecreasing
    /\ Len(closes) >= rsi_period + 2
    /\ \E a, b \in 1..Len(closes) :
           a < b /\ ~IsNaN(result[a]) /\ ~IsNaN(result[b])

-----------------------------------------------------------------------------
(* Properties of the backtests, continued (under Spec) *)

\* C17: a series shorter than 20 bars makes the backtest return an empty
\* trade list, whatever the parameters
C17_Under20BarsNoTrades ==
    (pc = "done" /\ Len(closes) < 20) => trades = <<>>

\* C17 amended: simple_backtest takes no position and returns no trade on a
\* series shorter than 20 bars, whatever the parameters;
\* MeanReversionStrategy.backtest has no minimum length and is without
\* position or trade when the series has at most red_days bars
C17_ShortSeriesNoTrades ==
    /\ (impl = "simple" /\ Len(closes) < 20)
           => trades = <<>> /\ position = None /\ opened = 0
    /\ (impl = "mr" /\ Len(closes) <= red_days)
           => trades = <<>> /\ position = None /\ opened = 0

\* C17 witness: simple_backtest has returned on a series shorter than 20
\* bars that holds a bar with a true entry signal before its last bar
C17_Witness ==
    /\ impl = "simple" /\ pc = "done"
    /\ Len(closes) < 20
    /\ \E b \in 1..(LastBar - 1) : EntrySignal(b)

\* C18: the six-bar scenario gives exactly one trade, entered at index 4
\* (the fifth bar, price 92), closed at index 5 (the sixth bar, price 95) as
\* end_of_data, with a return of about +3.26 percent
C18_ScenarioOneTrade ==
    (/\ pc = "done"
     /\ closes = ScenarioCloses
     /\ red_days = 3 /\ rsi_threshold = 50
     /\ exit_percentage = [num |-> 1, den |-> 20])
        => /\ Len(trades) = 1
           /\ trades[1].buy_date = dates[5]
           /\ trades[1].buy_price = 92
           /\ trades[1].sell_date = dates[6]
           /\ trades[1].sell_price = 95
           /\ trades[1].exit_reason = "end_of_data"
           /\ 100 * trades[1].return_pct.num >= 325 * trades[1].return_pct.den
           /\ 100 * trades[1].return_pct.num <= 327 * trades[1].return_pct.den

\* C19: every trade records the close of its entry bar as entry price, the
\* close of its exit bar as exit price, (exit - entry) / entry * 100 as
\* return_pct, and the calendar days between the two timestamps as holding
\* days
C19_TradeRecordFields ==
    \A k \in 1..Len(trades) :
        /\ trades[k].buy_price = closes[IndexOf(trades[k].buy_date)]
        /\ trades[k].sell_price = closes[IndexOf(trades[k].sell_date)]
        /\ trades[k].return_pct.den # 0
        /\ trades[k].return_pct.num * trades[k].buy_price
               = 100 * (trades[k].sell_price - trades[k].buy_price)
                     * trades[k].return_pct.den
        /\ trades[k].days_held = trades[k].sell_date - trades[k].buy_date

\* C19 witness: a trade with a non-zero return held over a weekend, so that
\* its calendar days exceed its bars
C19_Witness ==
    \E k \in 1..Len(trades) :
        /\ trades[k].sell_price # trades[k].buy_price
        /\ trades[k].days_held
               > IndexOf(trades[k].sell_date) - IndexOf(trades[k].buy_date)

C27_UndefinedRsiBarSkipped ==
    [][(/\ pc = "loop" /\ i <= LastBar
        /\ rsi_values[i].den = 0)
           => /\ position' = position
              /\ trades' = trades
              /\ i' = i + 1]_vars

\* C27 witness: the loop has passed the last bar, whose RSI is undefined,
\* with a position open, and the position is still open
C27_Witness ==
    /\ pc = "loop" /\ i > LastBar
    /\ position # None
    /\ rsi_values[LastBar].den = 0
    /\ position.buy_date < dates[LastBar]

\* C25: a call with an exit_percentage that is zero or negative is rejected:
\* the backtest computes no signal, takes no position and does not return
\* to its caller with a trade list
C25_InvalidInputRejected ==
    exit_percentage.num <= 0
        => /\ pc # "done"
           /\ signals = <<>> /\ position = None /\ trades = <<>>

\* C29: check_live_signals reports a BUY exactly when the entry condition
\* of the backtest holds at the last bar: the RSI there is defined and below
\* rsi_threshold and the forward red-day run there is at least red_days; the
\* red-day count it reports is that run; and a series of fewer than 15 bars
\* or with an undefined last RSI gives no signal
C29_LiveSignalIffEntryCondition ==
    pc = "checked"
        => /\ Len(result) = 1
                  <=> /\ SimpleRsiAt(closes, LastBar, DefaultPeriod).den # 0
                      /\ SimpleRsiAt(closes, LastBar, DefaultPeriod).num
                             < rsi_threshold
                                   * SimpleRsiAt(closes, LastBar, DefaultPeriod).den
                      /\ identify_red_days(closes)[LastBar] >= red_days
           /\ Len(result) \in {0, 1}
           /\ Len(result) = 1
                  => /\ result[1].red_days = identify_red_days(closes)[LastBar]
                     /\ result[1].price = closes[LastBar]
           /\ (\/ Len(closes) < 15
               \/ SimpleRsiAt(closes, LastBar, DefaultPeriod).den = 0)
                  => Len(result) = 0

\* C29 witness: a BUY on a series whose red run at the last bar is two or
\* more
C29_Witness ==
    /\ pc = "checked"
    /\ Len(result) = 1
    /\ result[1].red_days >= 2

-----------------------------------------------------------------------------
(* The performance aggregators called on a trade list: the list is in      *)
(* trades, the dictionary returned in metrics                              *)

MaxTrades == 5

\* the entry price and the exit prices of the trades of a list: a loss, a
\* zero return and a gain
MetricBuyPrice == 100

MetricSellPrices == {95, 100, 105}

\* trade number k of a list, bought on one bar and sold on the next
MetricTrade(k, price) ==
    MakeTrade(OpenPosition(TradingDate(2 * k - 1), MetricBuyPrice, Ticker),
              TradingDate(2 * k), price,
              IF price = MetricBuyPrice THEN "end_of_data" ELSE "target_hit")

TradeLists ==
    UNION {{[k \in 1..n |-> MetricTrade(k, s[k])] :
                s \in [1..n -> MetricSellPrices]} : n \in 0..MaxTrades}

RECURSIVE Gcd(_, _)
Gcd(a, b) == IF b = 0 THEN a ELSE Gcd(b, a % b)

\* the fraction n/d in lowest terms, d > 0
Rat(n, d) ==
    LET g == Gcd(Abs(n), d)
    IN  [num |-> n \div g, den |-> d \div g]

\* the least common multiple of two denominators
Lcm(a, b) == (a \div Gcd(a, b)) * b

RatAdd(a, b) ==
    LET d == Lcm(a.den, b.den)
    IN  Rat(a.num * (d \div a.den) + b.num * (d \div b.den), d)

RatSub(a, b) ==
    LET d == Lcm(a.den, b.den)
    IN  Rat(a.num * (d \div a.den) - b.num * (d \div b.den), d)

RatLess(a, b) == RatSub(a, b).num < 0

\* a * b, the common factors removed before the products are taken
RatMul(a, b) ==
    LET g == Gcd(Abs(a.num), b.den)
        h == Gcd(Abs(b.num), a.den)
    IN  Rat((a.num \div g) * (b.num \div h), (a.den \div h) * (b.den \div g))

\* a / b for b > 0
RatDiv(a, b) == RatMul(a, [num |-> b.den, den |-> b.num])

RatAbs(a) == [num |-> Abs(a.num), den |-> a.den]

\* the number 0 of the dictionary returned for an empty list
Zero == Rat(0, 1)

\* returns = [trade['return_pct'] for trade in trades]
Returns(ts) == [k \in 1..Len(ts) |-> Rat(ts[k].return_pct.num, ts[k].return_pct.den)]

RECURSIVE RatSum(_)
\* np.sum(returns), sum(returns)
RatSum(rs) == IF rs = <<>> THEN Zero ELSE RatAdd(rs[1], RatSum(Tail(rs)))

\* np.mean(returns)
RatMean(rs) == Rat(RatSum(rs).num, RatSum(rs).den * Len(rs))

\* max(returns)
RatMax(rs) == CHOOSE r \in {rs[k] : k \in 1..Len(rs)} :
                  \A k \in 1..Len(rs) : ~RatLess(r, rs[k])

\* min(returns)
RatMin(rs) == CHOOSE r \in {rs[k] : k \in 1..Len(rs)} :
                  \A k \in 1..Len(rs) : ~RatLess(rs[k], r)

\* len(winning_trades), winning_trades = [r for r in returns if r > 0]
WinningTrades(rs) == Cardinality({k \in 1..Len(rs) : rs[k].num > 0})

\* len(losing_trades), losing_trades = [r for r in returns if r < 0]
LosingTrades(rs) == Cardinality({k \in 1..Len(rs) : rs[k].num < 0})

\* len(winning_trades) / len(trades) * 100
WinRate(rs) == Rat(100 * WinningTrades(rs), Len(rs))

RECURSIVE CumReturns(_, _)
\* cum_returns[k] = np.cumprod(1 + np.array(returns) / 100)[k]
CumReturns(rs, k) ==
    IF k = 0 THEN Rat(1, 1)
    ELSE RatMul(CumReturns(rs, k - 1),
                RatAdd(Rat(1, 1), RatDiv(rs[k], Rat(100, 1))))

\* RunningMax that keeps the first value of the curve as the peak
RunningMaxFirstValue(rs, k) == CumReturns(rs, 1)

RECURSIVE RunningMax(_, _)
\* running_max[k] = np.maximum.accumulate(cum_returns)[k]
RunningMax(rs, k) ==
    IF k = 1 THEN CumReturns(rs, 1)
    ELSE IF RatLess(RunningMax(rs, k - 1), CumReturns(rs, k))
         THEN CumReturns(rs, k)
         ELSE RunningMax(rs, k - 1)

\* drawdown[k] = (cum_returns[k] - running_max[k]) / running_max[k]
Drawdown(rs, k) ==
    RatDiv(RatSub(CumReturns(rs, k), RunningMax(rs, k)), RunningMax(rs, k))

\* utils.calculate_max_drawdown: 0 for no returns, abs(np.min(drawdown)) * 100
calculate_max_drawdown(rs) ==
    IF rs = <<>> THEN Zero
    ELSE RatMul(RatAbs(RatMin([k \in 1..Len(rs) |-> Drawdown(rs, k)])),
                Rat(100, 1))

-----------------------------------------------------------------------------
(* The float64 arithmetic of calculate_sharpe_ratio.  A float is           *)
(* sign * m * 2^e with a significand m of SigBits bits (m = 0 for zero);   *)
(* m is held as NumLimbs digits in base LimbBase, least digit first.  The  *)
(* values of the aggregators are far from overflow, underflow and the      *)
(* subnormals, which are left out.                                         *)

\* the bits of a digit
LimbBits == 15

LimbBase == 2 ^ LimbBits

\* the digits kept: room for a significand shifted by up to 36 bits
NumLimbs == 6

\* the bits of the significand of a float64
SigBits == 53

RECURSIVE OfNatFrom(_, _)
OfNatFrom(n, k) ==
    IF k > NumLimbs THEN <<>>
    ELSE <<n % LimbBase>> \o OfNatFrom(n \div LimbBase, k + 1)

\* the digits of a natural number
BigOfNat(n) == OfNatFrom(n, 1)

BigZero == BigOfNat(0)

RECURSIVE AddFrom(_, _, _, _)
AddFrom(a, b, k, carry) ==
    IF k > NumLimbs THEN <<>>
    ELSE LET s == a[k] + b[k] + carry
         IN  <<s % LimbBase>> \o AddFrom(a, b, k + 1, s \div LimbBase)

BigAdd(a, b) == AddFrom(a, b, 1, 0)

RECURSIVE SubFrom(_, _, _, _)
SubFrom(a, b, k, borrow) ==
    IF k > NumLimbs THEN <<>>
    ELSE LET d == a[k] - b[k] - borrow
         IN  <<(d + LimbBase) % LimbBase>>
                 \o SubFrom(a, b, k + 1, IF d < 0 THEN 1 ELSE 0)

\* a - b for a >= b
BigSub(a, b) == SubFrom(a, b, 1, 0)

RECURSIVE MulFrom(_, _, _, _)
MulFrom(a, n, k, carry) ==
    IF k > NumLimbs THEN <<>>
    ELSE LET p == a[k] * n + carry
         IN  <<p % LimbBase>> \o MulFrom(a, n, k + 1, p \div LimbBase)

\* a * n for 0 < n <= LimbBase
BigMulSmall(a, n) == MulFrom(a, n, 1, 0)

RECURSIVE DivFrom(_, _, _, _)
\* the digits 1..k of the quotient, rem being the remainder of the digits
\* above k
DivFrom(a, n, k, rem) ==
    IF k = 0 THEN <<>>
    ELSE LET d == rem * LimbBase + a[k]
         IN  Append(DivFrom(a, n, k - 1, d % n), d \div n)

\* a \div n for 0 < n <= LimbBase
BigDivSmall(a, n) == DivFrom(a, n, NumLimbs, 0)

RECURSIVE RemFrom(_, _, _, _)
RemFrom(a, n, k, rem) ==
    IF k = 0 THEN rem
    ELSE RemFrom(a, n, k - 1, (rem * LimbBase + a[k]) % n)

\* a % n
BigRemSmall(a, n) == RemFrom(a, n, NumLimbs, 0)

RECURSIVE BigLessFrom(_, _, _)
BigLessFrom(a, b, k) ==
    IF k = 0 THEN FALSE
    ELSE IF a[k] # b[k] THEN a[k] < b[k]
    ELSE BigLessFrom(a, b, k - 1)

BigLess(a, b) == BigLessFrom(a, b, NumLimbs)

RECURSIVE BitLength(_)
BitLength(n) == IF n = 0 THEN 0 ELSE 1 + BitLength(n \div 2)

RECURSIVE BitLengthFrom(_, _)
BitLengthFrom(a, k) ==
    IF k = 0 THEN 0
    ELSE IF a[k] # 0 THEN LimbBits * (k - 1) + BitLength(a[k])
    ELSE BitLengthFrom(a, k - 1)

\* the number of bits of a
BigBitLength(a) == BitLengthFrom(a, NumLimbs)

RECURSIVE BigShiftLeft(_, _)
\* a * 2^s
BigShiftLeft(a, s) ==
    IF s = 0 THEN a
    ELSE IF s >= LimbBits
    THEN BigShiftLeft(<<0>> \o SubSeq(a, 1, NumLimbs - 1), s - LimbBits)
    ELSE BigMulSmall(a, 2 ^ s)

FZero == [sign |-> 1, m |-> BigZero, e |-> 0]

IsZero(x) == x.m = BigZero

RECURSIVE RoundDrop(_, _, _, _, _)
\* the last s bits of n are dropped, sticky telling of a one below them:
\* round to nearest, ties to even
RoundDrop(sign, n, e, sticky, s) ==
    IF s > LimbBits
    THEN RoundDrop(sign, BigDivSmall(n, LimbBase), e + LimbBits,
                   sticky \/ BigRemSmall(n, LimbBase) # 0, s - LimbBits)
    ELSE LET kept    == BigDivSmall(n, 2 ^ s)
             dropped == BigRemSmall(n, 2 ^ s)
             half    == 2 ^ (s - 1)
             up      == /\ dropped >= half
                        /\ (dropped > half \/ sticky \/ kept[1] % 2 = 1)
             r       == IF up THEN BigAdd(kept, BigOfNat(1)) ELSE kept
         IN  IF BigBitLength(r) > SigBits
             THEN [sign |-> sign, m |-> BigDivSmall(r, 2), e |-> e + s + 1]
             ELSE [sign |-> sign, m |-> r, e |-> e + s]

\* Round for a number n of len bits
RoundBits(sign, n, e, sticky, len) ==
    IF len = 0 THEN FZero
    ELSE IF len <= SigBits
    THEN [sign |-> sign, m |-> BigShiftLeft(n, SigBits - len),
          e |-> e - (SigBits - len)]
    ELSE RoundDrop(sign, n, e, sticky, len - SigBits)

\* the float nearest to sign * (n + a fraction) * 2^e, the fraction being 0
\* unless sticky; a sticky n has more than SigBits + 1 bits
Round(sign, n, e, sticky) == RoundBits(sign, n, e, sticky, BigBitLength(n))

\* float(k) of an integer k
FOfInt(k) ==
    Round(IF k < 0 THEN -1 ELSE 1, BigOfNat(IF k < 0 THEN -k ELSE k), 0, FALSE)

\* -x
FNeg(x) == [x EXCEPT !.sign = -x.sign]

\* x + y
FAdd(x, y) ==
    IF IsZero(x) THEN y
    ELSE IF IsZero(y) THEN x
    ELSE LET e0 == IF x.e < y.e THEN x.e ELSE y.e
             a  == BigShiftLeft(x.m, x.e - e0)
             b  == BigShiftLeft(y.m, y.e - e0)
         IN  IF x.sign = y.sign THEN Round(x.sign, BigAdd(a, b), e0, FALSE)
             ELSE IF a = b THEN FZero
             ELSE IF BigLess(b, a) THEN Round(x.sign, BigSub(a, b), e0, FALSE)
             ELSE Round(y.sign, BigSub(b, a), e0, FALSE)

\* x / n for an integer 0 < n < 2^(LimbBits - 2)
FDivSmall(x, d) ==
    LET shifted == BigShiftLeft(x.m, LimbBits)
    IN  Round(x.sign, BigDivSmall(shifted, d), x.e - LimbBits,
              BigRemSmall(shifted, d) # 0)

\* x * n for an integer 0 < n <= LimbBase
FMulSmall(x, n) == Round(x.sign, BigMulSmall(x.m, n), x.e, FALSE)

\* trade['return_pct'] as the backtests compute it:
\* (current_price - buy_price) / buy_price * 100
FloatReturn(t) ==
    FMulSmall(FDivSmall(FOfInt(t.sell_price - t.buy_price), t.buy_price), 100)

RECURSIVE FloatReturnsTo(_, _)
FloatReturnsTo(ts, k) ==
    IF k = 0 THEN <<>>
    ELSE Append(FloatReturnsTo(ts, k - 1), FloatReturn(ts[k]))

\* returns = [trade['return_pct'] for trade in trades]
FloatReturns(ts) == FloatReturnsTo(ts, Len(ts))

\* risk_free_rate=0.02
RiskFreeRate == FDivSmall(FOfInt(2), 100)

\* the trading days of a year
TradingDays == 252

RECURSIVE ExcessReturnsTo(_, _, _)
ExcessReturnsTo(rs, daily, k) ==
    IF k = 0 THEN <<>>
    ELSE Append(ExcessReturnsTo(rs, daily, k - 1),
                FAdd(FDivSmall(rs[k], 100), FNeg(daily)))

\* excess_returns = np.array(returns) / 100 - risk_free_rate / 252
ExcessReturns(rs) ==
    ExcessReturnsTo(rs, FDivSmall(RiskFreeRate, TradingDays), Len(rs))

RECURSIVE FSum(_, _)
\* the sum of the first k of xs, added one after the other: np.add.reduce
\* of fewer than 8 values
FSum(xs, k) == IF k = 0 THEN FZero ELSE FAdd(FSum(xs, k - 1), xs[k])

\* np.mean(xs)
FMean(xs) == FDivSmall(FSum(xs, Len(xs)), Len(xs))

RECURSIVE DeviationsTo(_, _, _)
DeviationsTo(xs, arrmean, k) ==
    IF k = 0 THEN <<>>
    ELSE Append(DeviationsTo(xs, arrmean, k - 1), FAdd(xs[k], FNeg(arrmean)))

\* x = arr - arrmean of np.std(xs)
Deviations(xs) == DeviationsTo(xs, FMean(xs), Len(xs))

\* np.std(xs) == 0, dev being the deviations of xs from their mean: the
\* mean of the squared deviations is 0 only when every deviation is 0, a
\* square of a nonzero deviation being far from underflow
IsZeroStd(dev, xs) == \A k \in 1..Len(dev) : IsZero(dev[k])

\* the 0 that calculate_sharpe_ratio returns from its two guards
SharpeZero == [guard |-> TRUE, mean |-> FZero, deviations |-> <<>>]

\* utils.calculate_sharpe_ratio: 0 for fewer than 2 returns and for a zero
\* standard deviation of the excess returns, and else
\* np.mean(excess_returns) / np.std(excess_returns) * np.sqrt(252), held as
\* the mean and the deviations that np.std squares and averages
calculate_sharpe_ratio(rs) ==
    IF Len(rs) < 2 THEN SharpeZero
    ELSE LET excess_returns == ExcessReturns(rs)
             dev            == Deviations(excess_returns)
         IN  IF IsZeroStd(dev, excess_returns) THEN SharpeZero
             ELSE [guard      |-> FALSE,
                   mean       |-> FMean(excess_returns),
                   deviations |-> dev]

-----------------------------------------------------------------------------
(* the aggregators *)

\* calculate_performance_metrics that keeps a running count of the trades of
\* all its calls
PerformanceMetricsRunningCount(ts) ==
    LET before == IF pc = "start" THEN 0 ELSE metrics.total_trades
    IN  [total_trades |-> before + Len(ts),
         win_rate     |-> IF ts = <<>> THEN Zero ELSE WinRate(Returns(ts)),
         avg_return   |-> IF ts = <<>> THEN Zero ELSE RatMean(Returns(ts)),
         total_return |-> RatSum(Returns(ts)),
         best_trade   |-> IF ts = <<>> THEN Zero ELSE RatMax(Returns(ts)),
         worst_trade  |-> IF ts = <<>> THEN Zero ELSE RatMin(Returns(ts))]

\* MeanReversionStrategy.calculate_performance_metrics, its keys total_trades,
\* win_rate, avg_return, total_return, best_trade and worst_trade
calculate_performance_metrics(ts) ==
    IF ts = <<>>
    THEN [total_trades |-> 0, win_rate |-> Zero, avg_return |-> Zero,
          total_return |-> Zero, best_trade |-> Zero, worst_trade |-> Zero]
    ELSE [total_trades |-> Len(ts),
          win_rate     |-> WinRate(Returns(ts)),
          avg_return   |-> RatMean(Returns(ts)),
          total_return |-> RatSum(Returns(ts)),
          best_trade   |-> RatMax(Returns(ts)),
          worst_trade  |-> RatMin(Returns(ts))]

\* utils.calculate_trade_statistics, its keys total_trades, winning_trades,
\* losing_trades, win_rate, total_return, avg_return, max_drawdown and
\* sharpe_ratio; the empty dictionary for an empty list
calculate_trade_statistics(ts) ==
    IF ts = <<>>
    THEN <<>>
    ELSE [total_trades   |-> Len(ts),
          winning_trades |-> WinningTrades(Returns(ts)),
          losing_trades  |-> LosingTrades(Returns(ts)),
          win_rate       |-> WinRate(Returns(ts)),
          total_return   |-> RatSum(Returns(ts)),
          avg_return     |-> RatMean(Returns(ts)),
          max_drawdown   |-> calculate_max_drawdown(Returns(ts)),
          sharpe_ratio   |-> calculate_sharpe_ratio(FloatReturns(ts))]

InitMetrics ==
    /\ impl = "metrics"
    /\ trades \in TradeLists
    /\ closes = <<>>
    /\ dates = <<>>
    /\ rsi_period = DefaultPeriod
    /\ rsi_threshold = 30
    /\ exit_percentage = [num |-> 1, den |-> 20]
    /\ red_days = 2
    /\ pc = "start"
    /\ i = 0
    /\ position = None
    /\ opened = 0
    /\ signals = <<>>
    /\ result = <<>>
    /\ metrics = <<>>
    /\ calls = <<>>

\* strategy.calculate_performance_metrics(trades)
CallPerformanceMetrics ==
    /\ pc = "start"
    /\ metrics' = calculate_performance_metrics(trades)
    /\ pc' = "performance_metrics"
    /\ UNCHANGED <<inputs, calls, result, signals, i, position, trades, opened>>

\* calculate_trade_statistics(trades)
CallTradeStatistics ==
    /\ pc = "start"
    /\ metrics' = calculate_trade_statistics(trades)
    /\ pc' = "trade_statistics"
    /\ UNCHANGED <<inputs, calls, result, signals, i, position, trades, opened>>

\* a second strategy.calculate_performance_metrics(trades) on the same list
RepeatPerformanceMetrics ==
    /\ pc = "performance_metrics"
    /\ metrics' = calculate_performance_metrics(trades)
    /\ pc' = "performance_metrics_again"
    /\ UNCHANGED <<inputs, calls, result, signals, i, position, trades, opened>>

\* a second calculate_trade_statistics(trades) on the same list
RepeatTradeStatistics ==
    /\ pc = "trade_statistics"
    /\ metrics' = calculate_trade_statistics(trades)
    /\ pc' = "trade_statistics_again"
    /\ UNCHANGED <<inputs, calls, result, signals, i, position, trades, opened>>

\* calculate_max_drawdown(returns)
CallMaxDrawdown ==
    /\ pc = "start"
    /\ result' = calculate_max_drawdown(Returns(trades))
    /\ pc' = "max_drawdown"
    /\ UNCHANGED <<inputs, calls, metrics, signals, i, position, trades, opened>>

\* calculate_sharpe_ratio(returns)
CallSharpeRatio ==
    /\ pc = "start"
    /\ result' = calculate_sharpe_ratio(FloatReturns(trades))
    /\ pc' = "sharpe_ratio"
    /\ UNCHANGED <<inputs, calls, metrics, signals, i, position, trades, opened>>

NextMetrics ==
    \/ CallPerformanceMetrics
    \/ CallTradeStatistics
    \/ RepeatPerformanceMetrics
    \/ RepeatTradeStatistics
    \/ CallMaxDrawdown
    \/ CallSharpeRatio

SpecMetrics == InitMetrics /\ [][NextMetrics]_vars

\* C20: the aggregator reports win_rate = (number of trades with
\* return_pct > 0) / (number of trades), a zero-return trade not being a
\* win, and for an empty trade list a win_rate that is present and 0
C20_WinRateFraction ==
    pc \in {"performance_metrics", "trade_statistics"}
        => /\ "win_rate" \in DOMAIN metrics
           /\ metrics.win_rate.den # 0
           /\ IF trades = <<>>
              THEN metrics.win_rate.num = 0
              ELSE metrics.win_rate.num * Len(trades)
                       = Cardinality({k \in 1..Len(trades) :
                                          trades[k].sell_price > trades[k].buy_price})
                             * metrics.win_rate.den

RECURSIVE Growth(_, _)
\* the growth of the compounded curve from trade j to trade k >= j: the
\* product of sell_price / buy_price over the trades j+1..k
Growth(j, k) ==
    IF k <= j THEN Rat(1, 1)
    ELSE RatMul(Growth(j, k - 1), Rat(trades[k].sell_price, trades[k].buy_price))

\* the fall of the curve from trade j to trade k, in percent of its value at j
Fall(j, k) == RatMul(RatSub(Rat(1, 1), Growth(j, k)), Rat(100, 1))

\* C21: max_drawdown is the largest fall, in percent of a peak, of the
\* curve that compounds (1 + return_pct/100) over the trades in order, from
\* a running peak to a later value; it is 0 for an empty and for a
\* single-trade list and never negative
C21_MaxDrawdown ==
    pc = "max_drawdown"
        => /\ result.den > 0 /\ result.num >= 0
           /\ Len(trades) <= 1 => result.num = 0
           /\ trades # <<>>
                  => /\ \E k \in 1..Len(trades) : \E j \in 1..k :
                            result = Fall(j, k)
                     /\ \A k \in 1..Len(trades) : \A j \in 1..k :
                            ~RatLess(result, Fall(j, k))

\* C21 witness: a list whose curve rises to a peak above its first value and
\* falls afterwards, so that the drawdown is measured from the later peak
C21_Witness ==
    /\ pc = "max_drawdown"
    /\ Len(trades) >= 3
    /\ trades[1].sell_price > trades[1].buy_price
    /\ trades[2].sell_price > trades[2].buy_price
    /\ trades[3].sell_price < trades[3].buy_price
    /\ result.num > 0

-----------------------------------------------------------------------------
(* run_strategy: one SimpleStrategy object, one backtest call per ticker.   *)
(* calls[t] holds the locals of the call made for ticker t; the strategy's  *)
(* parameters rsi_threshold, exit_percentage and red_days are shared.       *)

\* tickers
Instruments == {"AAPL", "MSFT"}

\* the downloaded histories: fourteen bars at 100, one bar at another price,
\* then fourteen bars at a third price, or one bar back at 100
InstrumentSeries ==
    {s \in SegmentSeries : /\ Len(s) \in {16, 29}
                           /\ s[1] = 100
                           /\ s[15] # s[14]
                           /\ s[16] # s[15]
                           /\ Len(s) = 16 => s[16] = 100}

\* data.index of a history of n bars
InstrumentDates(n) == [b \in 1..n |-> TradingDate(b)]

\* the locals of simple_backtest on entry
NewCall(c) ==
    [closes |-> c, pc |-> "start", i |-> 0, position |-> None, trades |-> <<>>,
     frame |-> <<>>]

\* the position another call left behind
PositionOfLastWriter(cs, t) ==
    IF \E u \in DOMAIN cs : u # t /\ cs[u].position # None
    THEN cs[CHOOSE u \in DOMAIN cs : u # t /\ cs[u].position # None].position
    ELSE cs[t].position

\* position is a local of simple_backtest
PositionOf(cs, t) == cs[t].position

\* one iteration of simple_backtest's loop on the locals st, pos being the
\* position it reads, d the dates, current_rsi and current_red the values
\* of rsi_values and consecutive_red at its bar
simple_loop_body(st, pos, d, current_rsi, current_red) ==
    LET b             == st.i
        current_price == st.closes[b]
        return_pct    == ReturnPct(current_price, pos.buy_price)
        should_sell   == ShouldSell(return_pct, exit_percentage)
    IN  IF IsNaN(current_rsi)
        THEN [st EXCEPT !.i = b + 1]
        ELSE IF IsFlat(pos)
        THEN IF BuySignal(current_red, current_rsi, red_days, rsi_threshold)
             THEN [st EXCEPT !.position = OpenPosition(d[b], current_price, StockTicker),
                             !.i = b + 1]
             ELSE [st EXCEPT !.i = b + 1]
        ELSE IF should_sell \/ IsLastDay(b, Len(d))
             THEN [st EXCEPT !.trades = AppendTrade(@,
                                 MakeTrade(pos, d[b], current_price,
                                           ExitReason(should_sell))),
                             !.position = None,
                             !.i = b + 1]
             ELSE [st EXCEPT !.i = b + 1]

\* the iteration with the indicators simple_backtest computes from the
\* closes
simple_backtest_step(st, pos) ==
    simple_loop_body(st, pos, InstrumentDates(Len(st.closes)),
                     calculate_simple_rsi(st.closes, DefaultPeriod)[st.i],
                     identify_red_days(st.closes)[st.i])

\* for trade in trades: trade['ticker'] = ticker, left out
UpdateTickerNone(ts, tk) == ts

\* for trade in trades: trade['ticker'] = ticker
UpdateTicker(ts, tk) == [k \in 1..Len(ts) |-> [ts[k] EXCEPT !.ticker = tk]]

\* signals = data.copy(); signals['RSI'] = calculate_simple_rsi(...)
SignalsWithRsi(c) ==
    [b \in 1..Len(c) |->
        [Close |-> c[b], RSI |-> calculate_simple_rsi(c, DefaultPeriod)[b]]]

\* data.copy()
DataCopy(c) == [b \in 1..Len(c) |-> [Close |-> c[b]]]

\* the row run_strategy appends for a ticker with trades
ResultRow(tk, ts) ==
    [Ticker       |-> tk,
     Trades       |-> Len(ts),
     AvgReturn    |-> RatMean(Returns(ts)),
     WinRate      |-> WinRate(Returns(ts)),
     TotalReturn  |-> RatSum(Returns(ts)),
     BestTrade    |-> RatMax(Returns(ts)),
     WorstTrade   |-> RatMin(Returns(ts))]

InitInstruments ==
    /\ impl = "instruments"
    /\ closes = <<>>
    /\ dates = <<>>
    /\ rsi_threshold = 30
    /\ exit_percentage \in ExitPercentages
    /\ red_days = 1
    /\ rsi_period = DefaultPeriod
    /\ pc = "start"
    /\ i = 0
    /\ position = None
    /\ trades = <<>>
    /\ opened = 0
    /\ signals = <<>>
    /\ result = <<>>
    /\ metrics = <<>>
    /\ calls \in [Instruments -> {NewCall(c) : c \in InstrumentSeries}]

single == <<inputs, pc, i, position, trades, opened, signals, metrics>>

\* if len(data) < 20: return []
CallTooShort(t) ==
    /\ calls[t].pc = "start"
    /\ Len(calls[t].closes) < MinBars
    /\ calls' = [calls EXCEPT ![t].pc = "done"]
    /\ UNCHANGED <<single, result>>

\* the indicators are computed; trades = []; position = None
CallStart(t) ==
    /\ calls[t].pc = "start"
    /\ Len(calls[t].closes) >= MinBars
    /\ calls' = [calls EXCEPT ![t].pc = "loop", ![t].i = 1]
    /\ UNCHANGED <<single, result>>

\* one iteration of the loop of the call for ticker t
CallStep(t) ==
    /\ calls[t].pc = "loop"
    /\ calls[t].i <= Len(calls[t].closes)
    /\ calls' = [calls EXCEPT ![t] = simple_backtest_step(calls[t], PositionOf(calls, t))]
    /\ UNCHANGED <<single, result>>

\* return trades
CallReturn(t) ==
    /\ calls[t].pc = "loop"
    /\ calls[t].i > Len(calls[t].closes)
    /\ calls' = [calls EXCEPT ![t].pc = "done"]
    /\ UNCHANGED <<single, result>>

\* an exception inside the try block of SimpleStrategy.backtest: the loop is
\* abandoned with its index and its position
CallRaise(t) ==
    /\ calls[t].pc \in {"start", "loop", "done"}
    /\ calls' = [calls EXCEPT ![t].pc = "raised",
                              ![t].i = 0,
                              ![t].position = None]
    /\ UNCHANGED <<single, result>>

\* the trades are relabelled; return trades, signals
WrapperReturn(t) ==
    /\ calls[t].pc = "done"
    /\ calls' = [calls EXCEPT ![t].trades = UpdateTicker(@, t),
                              ![t].frame = SignalsWithRsi(calls[t].closes),
                              ![t].pc = "returned"]
    /\ UNCHANGED <<single, result>>

\* except Exception: return [], data.copy()
WrapperExcept(t) ==
    /\ calls[t].pc = "raised"
    /\ calls' = [calls EXCEPT ![t].trades = <<>>,
                              ![t].frame = DataCopy(calls[t].closes),
                              ![t].pc = "excepted"]
    /\ UNCHANGED <<single, result>>

\* if trades: results.append({...})
StoreResult(t) ==
    /\ calls[t].pc \in {"returned", "excepted"}
    /\ result' = IF calls[t].trades # <<>>
                 THEN Append(result, ResultRow(t, calls[t].trades))
                 ELSE result
    /\ calls' = [calls EXCEPT ![t].pc = "stored"]
    /\ UNCHANGED single

NextInstruments ==
    \E t \in Instruments :
        \/ CallTooShort(t)
        \/ CallStart(t)
        \/ CallStep(t)
        \/ CallReturn(t)
        \/ CallRaise(t)
        \/ WrapperReturn(t)
        \/ WrapperExcept(t)
        \/ StoreResult(t)

SpecInstruments == InitInstruments /\ [][NextInstruments]_vars

-----------------------------------------------------------------------------
(* Properties of the per-ticker calls (under SpecInstruments) *)

RECURSIVE RunAlone(_)
\* the locals of a call that runs its loop to the end with no other call
\* in between
RunAlone(st) ==
    IF st.i > Len(st.closes) THEN st
    ELSE RunAlone(simple_backtest_step(st, st.position))

\* the trades of a backtest of the series c alone, made for the ticker tk
AloneTrades(c, tk) ==
    IF Len(c) < 20 THEN <<>>
    ELSE LET ts == RunAlone([NewCall(c) EXCEPT !.i = 1]).trades
         IN  [k \in 1..Len(ts) |-> [ts[k] EXCEPT !.ticker = tk]]

\* C26: under every interleaving of the calls made for different tickers
\* with one strategy object, the trade list a call returns is the one the
\* backtest of its instrument gives alone, and a row stored for a ticker is
\* the row of that list
C26_InstrumentsIndependent ==
    \A t \in Instruments :
        LET alone == AloneTrades(calls[t].closes, t)
        IN  /\ calls[t].pc = "returned" => calls[t].trades = alone
            /\ calls[t].pc = "done"
                   => /\ Len(calls[t].trades) = Len(alone)
                      /\ \A k \in 1..Len(alone) :
                             calls[t].trades[k]
                                 = [alone[k] EXCEPT !.ticker = StockTicker]
            /\ \A k \in 1..Len(result) :
                   result[k].Ticker = t
                       => /\ calls[t].pc = "stored"
                          /\ result[k] = ResultRow(t, alone)

\* C26 witness: the call for one ticker has returned a trade while the call
\* for another ticker, on a different series, is in its loop and holds an
\* open position
C26_Witness ==
    /\ calls["AAPL"].pc = "returned" 
    /\ calls["AAPL"].trades # <<>>
    /\ calls["MSFT"].pc = "loop"
    /\ calls["MSFT"].position # None
    /\ calls["MSFT"].closes # calls["AAPL"].closes

\* C30: an exception inside SimpleStrategy.backtest never leaves it: the
\* only step of a call that has raised is the handler, which returns an
\* empty trade list and a copy of the input data without added column; the
\* caller stores nothing for a call that returns no trade, failed or not;
\* a call that succeeds returns trades that all carry the ticker passed
C30_WrapperNeverRaises ==
    [][\A t \in Instruments :
          /\ calls[t].pc = "raised" /\ calls'[t] # calls[t]
                 => /\ calls'[t].pc = "excepted"
                    /\ calls'[t].trades = <<>>
                    /\ calls'[t].frame = [b \in 1..Len(calls[t].closes) |->
                                             [Close |-> calls[t].closes[b]]]
                    /\ calls'[t].closes = calls[t].closes
          /\ calls[t].pc = "excepted" => calls'[t].trades = <<>>
          /\ (/\ calls[t].pc \in {"returned", "excepted"}
              /\ calls'[t].pc = "stored"
              /\ calls[t].trades = <<>>)
                 => result' = result
          /\ calls'[t].pc = "returned"
                 => /\ calls[t].pc \in {"done", "returned"}
                    /\ \A k \in 1..Len(calls'[t].trades) :
                           calls'[t].trades[k].ticker = t
                    /\ Len(calls'[t].trades) = Len(calls[t].trades)]_vars

\* C30 witness: one call has returned a trade after success and the other
\* call, on a series that gives a trade when nothing fails, has returned
\* from the handler
C30_Witness ==
    /\ calls["AAPL"].pc = "returned"
    /\ calls["AAPL"].trades # <<>>
    /\ calls["MSFT"].pc = "excepted"
    /\ AloneTrades(calls["MSFT"].closes, "MSFT") # <<>>

-----------------------------------------------------------------------------
(* simple_backtest and MeanReversionStrategy.backtest run bar for bar on   *)
(* the same closes and the same RSI series: calls["simple"] and            *)
(* calls["mr"] hold their locals, signals the indicator frame both read    *)

\* the length of the flat start of the histories: three bars short of the
\* minimum of simple_backtest
FlatBars == MinBars - 3

\* the most bars that follow the flat start
MaxTail == 3

\* the histories: FlatBars bars at 100, then up to MaxTail bars at any price
EquivalenceSeries ==
    UNION {{[b \in 1..(FlatBars + k) |->
                IF b <= FlatBars THEN 100 ELSE t[b - FlatBars]] :
            t \in [1..k -> Prices]} : k \in 0..MaxTail}

\* the RSI values of a bar: undefined, below both thresholds, between them
RsiInputs == {NaN, [num |-> 20, den |-> 1], [num |-> 40, den |-> 1]}

\* the RSI series: undefined on the flat start, any value after it
RsiSeries(n) ==
    {[b \in 1..n |-> IF b <= FlatBars THEN NaN ELSE r[b]] :
        r \in [(FlatBars + 1)..n -> RsiInputs]}

\* the frame of generate_signals with the RSI column r
GivenSignals(c, r, rd, thr) ==
    [b \in 1..Len(c) |->
        [Close           |-> c[b],
         RSI             |-> r[b],
         Consecutive_Red |-> identify_red_days(c)[b],
         Buy_Signal      |-> BuySignal(identify_red_days(c)[b], r[b], rd, thr)]]

\* one iteration of the loop of MeanReversionStrategy.backtest on the
\* locals st
backtest_loop_body(st, tk) ==
    LET b             == st.i
        date          == dates[b]
        row           == signals[b]
        current_price == row.Close
        return_pct    == ReturnPct(current_price, st.position.buy_price)
        should_sell   == ShouldSell(return_pct, exit_percentage)
        is_last_day   == IsLastDay(b, Len(signals))
    IN  IF IsNaN(row.RSI)
        THEN [st EXCEPT !.i = b + 1]
        ELSE IF IsFlat(st.position) /\ Buy_Signal(b)
        THEN [st EXCEPT !.position = OpenPosition(date, current_price, tk),
                        !.i = b + 1]
        ELSE IF ~IsFlat(st.position) /\ (should_sell \/ is_last_day)
        THEN [st EXCEPT !.trades = AppendTrade(@,
                            MakeTrade(st.position, date, current_price,
                                      ExitReason(should_sell))),
                        !.position = None,
                        !.i = b + 1]
        ELSE [st EXCEPT !.i = b + 1]

\* lines 151-171: a position still open after the loop is closed at the
\* last bar; return trades, signals
backtest_after_loop(st) ==
    IF ~IsFlat(st.position)
    THEN [st EXCEPT !.trades = AppendTrade(@,
                        MakeTrade(st.position, dates[Len(dates)],
                                  signals[Len(signals)].Close, "end_of_data")),
                    !.pc = "done"]
    ELSE [st EXCEPT !.pc = "done"]

InitEquivalence ==
    /\ impl = "equivalence"
    /\ closes \in EquivalenceSeries
    /\ dates = [b \in 1..Len(closes) |-> TradingDate(b)]
    /\ rsi_threshold \in RsiThresholds
    /\ exit_percentage \in ExitPercentages
    /\ red_days \in RedDays
    /\ rsi_period = DefaultPeriod
    /\ pc = "start"
    /\ i = 0
    /\ position = None
    /\ trades = <<>>
    /\ opened = 0
    /\ \E r \in RsiSeries(Len(closes)) :
           signals = GivenSignals(closes, r, red_days, rsi_threshold)
    /\ result = <<>>
    /\ metrics = <<>>
    /\ calls = [s \in {"simple", "mr"} |-> NewCall(closes)]

\* both are called: simple_backtest returns [] at once on fewer than 20
\* bars, and sets up its loop otherwise; MeanReversionStrategy.backtest
\* sets up its loop
BothStart ==
    /\ impl = "equivalence" /\ pc = "start"
    /\ calls' = [calls EXCEPT
                    !["simple"].pc = IF Len(closes) < MinBars THEN "done" ELSE "loop",
                    !["simple"].i  = IF Len(closes) < MinBars THEN 0 ELSE 1,
                    !["mr"].pc = "loop",
                    !["mr"].i  = 1]
    /\ pc' = "loop"
    /\ UNCHANGED <<inputs, i, position, trades, opened, signals, metrics, result>>

\* the next bar is processed by each simulator that is in its loop
BothStep ==
    /\ impl = "equivalence" /\ pc = "loop"
    /\ calls["mr"].i <= Len(dates)
    /\ calls' = [calls EXCEPT
                    !["simple"] = IF @.pc = "loop"
                                  THEN simple_loop_body(@, @.position, dates,
                                           signals[@.i].RSI,
                                           signals[@.i].Consecutive_Red)
                                  ELSE @,
                    !["mr"] = backtest_loop_body(@, Ticker)]
    /\ UNCHANGED <<inputs, pc, i, position, trades, opened, signals, metrics, result>>

\* both return
BothReturn ==
    /\ impl = "equivalence" /\ pc = "loop"
    /\ calls["mr"].i > Len(dates)
    /\ calls' = [calls EXCEPT !["simple"].pc = "done",
                              !["mr"] = backtest_after_loop(@)]
    /\ pc' = "done"
    /\ UNCHANGED <<inputs, i, position, trades, opened, signals, metrics, result>>

NextEquivalence ==
    \/ BothStart
    \/ BothStep
    \/ BothReturn

SpecEquivalence == InitEquivalence /\ [][NextEquivalence]_vars

-----------------------------------------------------------------------------
(* Properties of the two simulators run together (under SpecEquivalence) *)

\* the two positions agree but for the ticker
SamePosition(p, q) == p.buy_date = q.buy_date /\ p.buy_price = q.buy_price

\* trade k of the list ts, but for the ticker
TradeOf(ts, k) == [ts[k] EXCEPT !.ticker = "any"]

\* the trades the two have agree but for the ticker
SameTrades(ts, us) ==
    /\ Len(ts) = Len(us)
    /\ \A k \in 1..Len(ts) : TradeOf(ts, k) = TradeOf(us, k)

\* the list us is the list ts and one end_of_data trade at the last bar
\* for the position pos
OneMoreAtEnd(ts, us, pos) ==
    /\ Len(us) = Len(ts) + 1
    /\ \A k \in 1..Len(ts) : TradeOf(ts, k) = TradeOf(us, k)
    /\ pos # None
    /\ us[Len(us)].buy_date = pos.buy_date
    /\ us[Len(us)].sell_date = dates[Len(dates)]
    /\ us[Len(us)].exit_reason = "end_of_data"

\* the simulators agree after every bar and on return
Equivalent ==
    /\ pc = "loop"
           => /\ SamePosition(calls["simple"].position, calls["mr"].position)
              /\ SameTrades(calls["simple"].trades, calls["mr"].trades)
    /\ pc = "done"
           => /\ SamePosition(calls["simple"].position, calls["mr"].position)
              /\ IF calls["mr"].position = None
                 THEN SameTrades(calls["simple"].trades, calls["mr"].trades)
                 ELSE OneMoreAtEnd(calls["simple"].trades, calls["mr"].trades,
                                   calls["mr"].position)

C22_SharpeGuards ==
    pc = "sharpe_ratio"
        => LET xs == ExcessReturns(FloatReturns(trades))
           IN  /\ Len(trades) < 2 => result = SharpeZero
               /\ (Len(trades) >= 2 /\ \A k \in 1..Len(xs) : xs[k] = xs[1])
                      => result = SharpeZero

====
